---- MODULE Spec2Model ----
(***************************************************************************)
(* isbnid-rs: the ISBN identifier type of src/src/isbn.rs.                 *)
(*                                                                         *)
(* A string is a sequence of characters, each character a one-element      *)
(* TLA+ string ("0", "-", "X", ...).  The non-ASCII character of the model *)
(* is the Arabic-Indic digit three, written "U+0663": the regex crate's \d *)
(* is Unicode-aware and matches it, str::is_ascii does not accept it.      *)
(*                                                                         *)
(* The caller holds at most one ISBN value.  From the idle state it calls  *)
(* ISBN::new or ISBN::is_valid on a raw string, then any accessors on the  *)
(* value it got, then drops it.                                            *)
(***************************************************************************)
EXTENDS Integers, Sequences, FiniteSets, TLC

VARIABLES isbn, op, arg, ret

vars == <<isbn, op, arg, ret>>

-----------------------------------------------------------------------------
(* Characters and strings                                                  *)

AsciiDigits == <<"0", "1", "2", "3", "4", "5", "6", "7", "8", "9">>

DigitChars == {AsciiDigits[i] : i \in 1..10}

Separators == {"-", " "}

NonAsciiDigit == "U+0663"

AsciiChars == DigitChars \cup Separators \cup {"X", "x", "a", "A"}

\* &s[a..b]: the characters at byte offsets a .. b-1 (every string sliced
\* in isbn.rs is ASCII, one byte per character).
Slice(s, a, b) == SubSeq(s, a + 1, b)

\* Variant of is_ascii: the check left out.
is_ascii_omitted(s) == TRUE

\* str::is_ascii
is_ascii(s) == \A i \in 1..Len(s) : s[i] \in AsciiChars

\* Variant of to_uppercase: the string taken as it is.
to_uppercase_omitted(s) == s

\* str::to_uppercase
to_uppercase(s) ==
    [i \in 1..Len(s) |-> CASE s[i] = "x" -> "X"
                           [] s[i] = "a" -> "A"
                           [] OTHER -> s[i]]

\* \d of the regex crate: any Unicode decimal digit.
RegexDigits == DigitChars \cup {NonAsciiDigit}

IsRegexDigit(c) == c \in RegexDigits

\* One repetition of (\d(-| )?) starting at position p (1-based): the set of
\* positions the match may continue from.
ReifUnit(s, p) ==
    IF p <= Len(s) /\ IsRegexDigit(s[p])
    THEN {p + 1} \cup (IF p + 1 <= Len(s) /\ s[p + 1] \in Separators
                       THEN {p + 2} ELSE {})
    ELSE {}

\* (\d(-| )?){k} starting at any position of P.
RECURSIVE ReifUnits(_, _, _)
ReifUnits(s, P, k) ==
    IF k = 0 THEN P
    ELSE ReifUnits(s, UNION {ReifUnit(s, p) : p \in P}, k - 1)

\* reif.is_match(id), reif = ^(\d(-| )?){9}(x|X|\d|(\d(-| )?){3}\d)$
reif_is_match(s) ==
    \E p \in ReifUnits(s, {1}, 9) :
        \/ p = Len(s) /\ (s[p] \in {"x", "X"} \/ IsRegexDigit(s[p]))
        \/ \E q \in ReifUnits(s, {p}, 3) : q = Len(s) /\ IsRegexDigit(s[q])

\* reis.replace_all(s, ""), reis = [^0-9X]
ReisKept == DigitChars \cup {"X"}

reis_replace_all(s) == SelectSeq(s, LAMBDA c : c \in ReisKept)

-----------------------------------------------------------------------------
(* u64 arithmetic.  A parsed u64 is held as the sequence of its decimal    *)
(* digit values, most significant first (a 12-digit value does not fit the *)
(* model checker's integers): n % 10 is the last element, n / 10 drops it, *)
(* and both give 0 once no digit is left.                                  *)

DigitVal(c) == CHOOSE n \in 0..9 : AsciiDigits[n + 1] = c

\* The Err of u64::from_str, on which unwrap() panics.
ParseError == <<-1>>

\* The outcome of a panic in a function returning u64.
Panic == -1

\* u64::from_str
from_str(s) ==
    IF Len(s) > 0 /\ \A i \in 1..Len(s) : s[i] \in DigitChars
    THEN [i \in 1..Len(s) |-> DigitVal(s[i])]
    ELSE ParseError

Mod10(n) == IF Len(n) = 0 THEN 0 ELSE n[Len(n)]

Div10(n) == IF Len(n) = 0 THEN <<>> ELSE SubSeq(n, 1, Len(n) - 1)

\* The value of a parsed u64 of at most 9 digits.
RECURSIVE U64Value(_)
U64Value(n) == IF Len(n) = 0 THEN 0 ELSE 10 * U64Value(Div10(n)) + Mod10(n)

\* format!("{}", n) of a u64
RECURSIVE FormatU64(_)
FormatU64(n) ==
    IF n < 10 THEN <<AsciiDigits[n + 1]>>
    ELSE FormatU64(n \div 10) \o <<AsciiDigits[(n % 10) + 1]>>

\* Variant of digit10_loop: the weight grows towards the left, d + i * (n % 10).
RECURSIVE digit10_loop_ascending(_, _, _)
digit10_loop_ascending(i, n, d) ==
    IF i >= 10 THEN d
    ELSE digit10_loop_ascending(i + 1, Div10(n), d + i * Mod10(n))

\* for i in 1..10 { d = d + (10 - i) * (n % 10); n = n / 10; }
RECURSIVE digit10_loop(_, _, _)
digit10_loop(i, n, d) ==
    IF i >= 10 THEN d
    ELSE digit10_loop(i + 1, Div10(n), d + (10 - i) * Mod10(n))

digit10(id) ==
    LET n == from_str(Slice(id, 0, 9))
    IN  IF Len(id) < 9 \/ n = ParseError THEN Panic
        ELSE digit10_loop(1, n, 0) % 11

\* Variant of digit13_loop: the weights 1 and 3 swapped, 1 + 2 * ((i + 1) % 2).
RECURSIVE digit13_loop_swapped(_, _, _)
digit13_loop_swapped(i, n, d) ==
    IF i >= 13 THEN d
    ELSE digit13_loop_swapped(i + 1, Div10(n), d + (1 + 2 * ((i + 1) % 2)) * Mod10(n))

\* for i in 1..13 { d = d + (1 + 2 * (i % 2)) * (n % 10); n = n / 10; }
RECURSIVE digit13_loop(_, _, _)
digit13_loop(i, n, d) ==
    IF i >= 13 THEN d
    ELSE digit13_loop(i + 1, Div10(n), d + (1 + 2 * (i % 2)) * Mod10(n))

\* (100000000000000000u64 - d) % 10: 10^17 is a multiple of 10^9 and d is
\* below 10^9, so the last digit of the difference is that of 10^9 - d.
digit13(id) ==
    LET n == from_str(Slice(id, 0, 12))
    IN  IF Len(id) < 12 \/ n = ParseError THEN Panic
        ELSE (1000000000 - digit13_loop(1, n, 0)) % 10

-----------------------------------------------------------------------------
(* ISBN                                                                    *)

\* struct ISBN { id: String }; live is FALSE while the caller holds none.
NoISBN == [live |-> FALSE, id |-> <<>>]

ISBNValue(id) == [live |-> TRUE, id |-> id]

\* A returned value: Ok(val), Err(ISBNError::tag), or a panic.
Ok(val) == [tag |-> "Ok", val |-> val]

Err(kind) == [tag |-> kind, val |-> <<>>]

Panicked == [tag |-> "Panic", val |-> <<>>]

ISBNError == {"Format", "CheckDigit", "Bookland", "Range"}

\* Variant of new13: the check digit tested before the Bookland prefix.
new13_check_first(nid) ==
    LET last == from_str(Slice(nid, 12, 13))
        check13 == digit13(nid)
    IN  IF last = ParseError \/ check13 = Panic
        THEN Panicked
        ELSE IF U64Value(last) # check13
        THEN Err("CheckDigit")
        ELSE IF Slice(nid, 0, 3) # <<"9", "7", "8">> /\ Slice(nid, 0, 3) # <<"9", "7", "9">>
        THEN Err("Bookland")
        ELSE Ok(nid)

\* ISBN::new, the branch nid.len() == 13
new13(nid) ==
    LET last == from_str(Slice(nid, 12, 13))
        check13 == digit13(nid)
    IN  IF Slice(nid, 0, 3) # <<"9", "7", "8">> /\ Slice(nid, 0, 3) # <<"9", "7", "9">>
        THEN Err("Bookland")
        ELSE IF last = ParseError \/ check13 = Panic
        THEN Panicked
        ELSE IF U64Value(last) # check13
        THEN Err("CheckDigit")
        ELSE Ok(nid)

\* Variant of new10: the ISBN10 check character copied into the ISBN13,
\* format!("{}{}", &id13, &nid[9..10]).
new10_copied_check(nid) ==
    LET id13 == <<"9", "7", "8">> \o Slice(nid, 0, 9)
        check10 == digit10(nid)
        last == from_str(Slice(nid, 9, 10))
    IN  IF check10 = Panic
        THEN Panicked
        ELSE IF Slice(nid, 9, 10) = <<"X">> /\ 10 # check10
        THEN Err("CheckDigit")
        ELSE IF Slice(nid, 9, 10) = <<"X">> /\ 10 = check10
        THEN Ok(id13 \o Slice(nid, 9, 10))
        ELSE IF last = ParseError
        THEN Panicked
        ELSE IF U64Value(last) # check10
        THEN Err("CheckDigit")
        ELSE Ok(id13 \o Slice(nid, 9, 10))

\* ISBN::new, the branch nid.len() == 10
new10(nid) ==
    LET id13 == <<"9", "7", "8">> \o Slice(nid, 0, 9)
        check10 == digit10(nid)
        last == from_str(Slice(nid, 9, 10))
    IN  IF check10 = Panic
        THEN Panicked
        ELSE IF Slice(nid, 9, 10) = <<"X">> /\ 10 # check10
        THEN Err("CheckDigit")
        ELSE IF Slice(nid, 9, 10) = <<"X">> /\ 10 = check10
        THEN Ok(id13 \o FormatU64(digit13(id13)))
        ELSE IF last = ParseError
        THEN Panicked
        ELSE IF U64Value(last) # check10
        THEN Err("CheckDigit")
        ELSE Ok(id13 \o FormatU64(digit13(id13)))

\* The stripped string of ISBN::new.
nid_of(id) == reis_replace_all(to_uppercase(id))

\* ISBN::new; assert!(false) panics when the length is neither 13 nor 10.
ISBN_new(id) ==
    LET nid == nid_of(id)
    IN  IF ~is_ascii(id) \/ ~reif_is_match(id) THEN Err("Format")
        ELSE IF Len(nid) = 13 THEN new13(nid)
        ELSE IF Len(nid) = 10 THEN new10(nid)
        ELSE Panicked

\* Variant of isbn10: the ISBN13 check digit copied, &self.id[3..13].
isbn10_copied_check(self) ==
    IF Slice(self.id, 0, 3) # <<"9", "7", "8">> THEN Err("Bookland")
    ELSE Ok(Slice(self.id, 3, 13))

\* Variant of isbn10: no branch for a check value of 10.
isbn10_decimal_check(self) ==
    LET check10 == digit10(Slice(self.id, 3, 12))
    IN  IF Slice(self.id, 0, 3) # <<"9", "7", "8">> THEN Err("Bookland")
        ELSE IF check10 = Panic THEN Panicked
        ELSE Ok(Slice(self.id, 3, 12) \o FormatU64(check10))

\* ISBN::isbn10
isbn10(self) ==
    LET check10 == digit10(Slice(self.id, 3, 12))
    IN  IF Slice(self.id, 0, 3) # <<"9", "7", "8">> THEN Err("Bookland")
        ELSE IF check10 = Panic THEN Panicked
        ELSE IF check10 = 10
        THEN Ok(Slice(self.id, 3, 12) \o <<"X">>)
        ELSE Ok(Slice(self.id, 3, 12) \o FormatU64(check10))

\* Variant of isbn13: the check digit left off, &self.id[0..12].
isbn13_truncated(self) == Slice(self.id, 0, 12)

\* ISBN::isbn13
isbn13(self) == self.id

\* ISBN::urn
urn(self) == <<"U", "R", "N", ":", "I", "S", "B", "N", ":">> \o self.id

\* [..].join("-")
RECURSIVE join(_, _)
join(parts, sep) ==
    IF Len(parts) = 0 THEN <<>>
    ELSE IF Len(parts) = 1 THEN parts[1]
    ELSE parts[1] \o sep \o join(Tail(parts), sep)

\* ISBN::hyphen, seg the answer (grp, reg, pbl) of hyphen::segments(&self.id)
hyphen(self, seg) ==
    LET grp == seg[1]
        reg == seg[2]
        pbl == seg[3]
    IN  IF grp = 0 THEN Err("Range")
        ELSE Ok(join(<<Slice(self.id, 0, 3),
                       Slice(self.id, 3, 3 + grp),
                       Slice(self.id, 3 + grp, 3 + grp + reg),
                       Slice(self.id, 12 - pbl, 12),
                       Slice(self.id, 12, 13)>>, <<"-">>))

\* Variant of doi: the suffix without the check digit, &self.id[12 - pbl..12].
doi_without_check(self, seg) ==
    LET grp == seg[1]
        reg == seg[2]
        pbl == seg[3]
    IN  IF grp = 0 THEN Err("Range")
        ELSE Ok(<<"1", "0", ".">> \o Slice(self.id, 0, 3) \o <<".">>
                \o Slice(self.id, 3, 3 + grp + reg) \o <<"/">>
                \o Slice(self.id, 12 - pbl, 12))

\* ISBN::doi
doi(self, seg) ==
    LET grp == seg[1]
        reg == seg[2]
        pbl == seg[3]
    IN  IF grp = 0 THEN Err("Range")
        ELSE Ok(<<"1", "0", ".">> \o Slice(self.id, 0, 3) \o <<".">>
                \o Slice(self.id, 3, 3 + grp + reg) \o <<"/">>
                \o Slice(self.id, 12 - pbl, 13))

\* ISBN::is_valid: the match on ISBN::new(id); a panic of new propagates.
is_valid(id) ==
    LET r == ISBN_new(id)
    IN  CASE r.tag = "Ok" -> [tag |-> "True", val |-> <<>>]
          [] r.tag \in ISBNError -> [tag |-> "False", val |-> <<>>]
          [] OTHER -> Panicked

-----------------------------------------------------------------------------
(* Inputs                                                                  *)

\* The string of a tuple of digit values.
Str(t) == [i \in 1..Len(t) |-> AsciiDigits[t[i] + 1]]

\* At most this many separators are inserted into a raw string.
MaxSeps == 2

\* A malformed character is tried on raw strings of at most this many
\* inserted separators.
MaxJunkSeps == 1

\* The first nine digits of the identifiers of tests/isbn-ok.rs and
\* tests/isbn-nok.rs.
Stems ==
    { Str(<<0, 1, 2, 3, 4, 5, 6, 7, 2>>),
      Str(<<1, 5, 9, 3, 2, 7, 3, 8, 8>>),
      Str(<<9, 9, 9, 9, 9, 9, 9, 9, 9>>) }

Insert(s, p, c) == SubSeq(s, 1, p) \o <<c>> \o SubSeq(s, p + 1, Len(s))

Delete(s, p) == SubSeq(s, 1, p - 1) \o SubSeq(s, p + 1, Len(s))

Replace(s, p, c) == [s EXCEPT ![p] = c]

\* Every stem with one digit replaced by any digit.
Bodies == {Replace(b, p, c) : b \in Stems, p \in 1..9, c \in DigitChars}

Prefixes == {<<"9", "7", "8">>, <<"9", "7", "9">>, <<"9", "8", "9">>}

\* Raw strings without separators: every body with every final character.
PlainInputs ==
    {b \o <<c>> : b \in Bodies, c \in DigitChars \cup {"X", "x"}}
    \cup {p \o b \o <<c>> : p \in Prefixes, b \in Bodies, c \in DigitChars}

\* The raw strings of the tests that the separators and the malformed
\* characters are tried on.
ShapeBases ==
    { Str(<<0, 1, 2, 3, 4, 5, 6, 7, 2>>) \o <<"X">>,
      Str(<<9, 7, 8, 1, 5, 9, 3, 2, 7, 3, 8, 8, 0>>),
      Str(<<9, 8, 9, 0, 1, 2, 3, 4, 5, 6, 7, 8, 1>>),
      Str(<<0, 1, 2, 3, 4, 5, 6, 7, 8>>) \o <<"X">> }

JunkBases ==
    { Str(<<0, 1, 2, 3, 4, 5, 6, 7, 2>>) \o <<"X">>,
      Str(<<9, 7, 8, 1, 5, 9, 3, 2, 7, 3, 8, 8, 0>>) }

\* The strings of S with at most k separators inserted anywhere.
RECURSIVE SepVariants(_, _)
SepVariants(S, k) ==
    IF k = 0 THEN S
    ELSE S \cup SepVariants(UNION {{Insert(s, p, c) : p \in 0..Len(s), c \in Separators}
                                   : s \in S}, k - 1)

JunkChars == {"X", "x", "a", "0", NonAsciiDigit}

\* The strings that s becomes with one character inserted, deleted or
\* replaced.
JunkEdits(s) ==
    {Insert(s, p, c) : p \in 0..Len(s), c \in JunkChars}
    \cup {Delete(s, p) : p \in 1..Len(s)}
    \cup {Replace(s, p, c) : p \in 1..Len(s), c \in JunkChars}

\* The strings a malformed character is tried on.
JunkSources == SepVariants(JunkBases, MaxJunkSeps)

\* The raw strings as written, before any malformed character.
InputSources == PlainInputs \cup SepVariants(ShapeBases, MaxSeps)

\* The raw strings tried for the source s: s itself and, for a string of
\* JunkSources, its edits.
InputsFrom(s) == IF s \in JunkSources THEN {s} \cup JunkEdits(s) ELSE {s}

\* The answers of hyphen::segments: (0, 0, 0), or three lengths of sum 9.
SegmentAnswers ==
    {<<0, 0, 0>>} \cup {s \in (0..9) \X (0..9) \X (0..9) : s[1] + s[2] + s[3] = 9}

\* The arguments digit10 is called with on its own.
Digit10Inputs == Bodies \cup {Str(t) : t \in [1..9 -> {0, 1}]}

-----------------------------------------------------------------------------
(* The caller                                                              *)

Idle == [tag |-> "None", val |-> <<>>]

Init ==
    /\ isbn = NoISBN
    /\ op = "idle"
    /\ arg = <<>>
    /\ ret = Idle

New ==
    /\ op = "idle"
    /\ \E s \in InputSources : \E id \in InputsFrom(s) :
        /\ op' = "new"
        /\ arg' = id
        /\ ret' = ISBN_new(id)
        /\ isbn' = IF ret'.tag = "Ok" THEN ISBNValue(ret'.val) ELSE NoISBN

IsValid ==
    /\ op = "idle"
    /\ \E s \in InputSources : \E id \in InputsFrom(s) :
        /\ op' = "is_valid"
        /\ arg' = id
        /\ ret' = is_valid(id)
        /\ UNCHANGED isbn

\* The caller holds an ISBN and no call is under way.
Holding == isbn.live /\ op \in {"new", "held"}

Isbn10 ==
    /\ Holding
    /\ op' = "isbn10"
    /\ arg' = <<>>
    /\ ret' = isbn10(isbn)
    /\ UNCHANGED isbn

Isbn13 ==
    /\ Holding
    /\ op' = "isbn13"
    /\ arg' = <<>>
    /\ ret' = Ok(isbn13(isbn))
    /\ UNCHANGED isbn

Urn ==
    /\ Holding
    /\ op' = "urn"
    /\ arg' = <<>>
    /\ ret' = Ok(urn(isbn))
    /\ UNCHANGED isbn

Hyphen ==
    /\ Holding
    /\ \E seg \in SegmentAnswers :
        /\ op' = "hyphen"
        /\ arg' = seg
        /\ ret' = hyphen(isbn, seg)
        /\ UNCHANGED isbn

Doi ==
    /\ Holding
    /\ \E seg \in SegmentAnswers :
        /\ op' = "doi"
        /\ arg' = seg
        /\ ret' = doi(isbn, seg)
        /\ UNCHANGED isbn

\* The caller has taken an accessor's result and goes on holding the ISBN.
Continue ==
    /\ isbn.live
    /\ op \notin {"new", "held"}
    /\ op' = "held"
    /\ arg' = <<>>
    /\ ret' = Idle
    /\ UNCHANGED isbn

\* The value goes out of scope; the caller is idle again.
Drop ==
    /\ op # "idle"
    /\ isbn' = NoISBN
    /\ op' = "idle"
    /\ arg' = <<>>
    /\ ret' = Idle

Next ==
    \/ New
    \/ IsValid
    \/ Isbn10
    \/ Isbn13
    \/ Urn
    \/ Hyphen
    \/ Doi
    \/ Continue
    \/ Drop

Spec == Init /\ [][Next]_vars

\* digit10 called on its own.
Digit10Call ==
    /\ op = "idle"
    /\ \E id \in Digit10Inputs :
        /\ op' = "digit10"
        /\ arg' = id
        /\ ret' = [tag |-> "U64", val |-> digit10(id)]
        /\ UNCHANGED isbn

NextDigit10 ==
    \/ Digit10Call
    \/ Drop

SpecDigit10 == Init /\ [][NextDigit10]_vars

-----------------------------------------------------------------------------
(* The terms the properties are stated in                                  *)

B978 == <<"9", "7", "8">>

B979 == <<"9", "7", "9">>

AccessorOps == {"isbn10", "isbn13", "urn", "hyphen", "doi"}

RECURSIVE Sum(_, _)
Sum(f, n) == IF n = 0 THEN 0 ELSE f[n] + Sum(f, n - 1)

\* The ISBN13 check value of 12 digits: weights 1, 3, 1, 3, ... from the
\* leftmost position, (10 - (sum mod 10)) mod 10.
Check13(s) ==
    (10 - (Sum([i \in 1..12 |-> (IF i % 2 = 1 THEN 1 ELSE 3) * DigitVal(s[i])], 12) % 10)) % 10

\* Position i, counted from the left, weighted by 10 - i.
Check10LeftDescending(s) == Sum([i \in 1..9 |-> (10 - i) * DigitVal(s[i])], 9) % 11

\* Position i, counted from the left, weighted by i.
Check10LeftAscending(s) == Sum([i \in 1..9 |-> i * DigitVal(s[i])], 9) % 11

\* The raw string without its separators, in upper case.
Stripped(raw) ==
    LET units == SelectSeq(raw, LAMBDA c : c \notin Separators)
    IN  [i \in 1..Len(units) |-> IF units[i] = "x" THEN "X" ELSE units[i]]

\* The two shapes: 10 or 13 units, all digits but for a final X or x of the
\* 10-unit shape, and every separator right after a digit and before
\* another unit.
WellShaped(raw) ==
    LET units == SelectSeq(raw, LAMBDA c : c \notin Separators)
    IN  /\ \A i \in 1..Len(raw) : raw[i] \in DigitChars \cup Separators \cup {"X", "x"}
        /\ \A i \in 1..Len(raw) :
              raw[i] \in Separators => 1 < i /\ i < Len(raw) /\ raw[i - 1] \in DigitChars
        /\ Len(units) \in {10, 13}
        /\ \A i \in 1..Len(units) - 1 : units[i] \in DigitChars
        /\ \/ units[Len(units)] \in DigitChars
           \/ Len(units) = 10 /\ units[10] \in {"X", "x"}

HasSeparator(raw) == \E i \in 1..Len(raw) : raw[i] \in Separators

-----------------------------------------------------------------------------
(* Properties                                                              *)

\* C1 (state part): the id of every constructed ISBN is 13 characters, all
\* digits, starts with 978 or 979, and ends with the check value of its
\* first 12 digits (weights 1, 3, 1, 3, ... from the left).
C1_Canonical ==
    isbn.live =>
        /\ Len(isbn.id) = 13
        /\ \A i \in 1..13 : isbn.id[i] \in DigitChars
        /\ SubSeq(isbn.id, 1, 3) \in {B978, B979}
        /\ isbn.id[13] = AsciiDigits[Check13(SubSeq(isbn.id, 1, 12)) + 1]

\* C1 (step part): no accessor call, and no return from one, changes the
\* ISBN.
C1_Unchanged == (op' \in AccessorOps \cup {"held"}) => (isbn' = isbn)

\* C1: every constructed ISBN holds a canonical 13-digit id (13 digits,
\* prefix 978 or 979, 13th digit the ISBN13 check value of the first 12), and
\* no accessor changes it afterwards.
C1_CanonicalForm == [](C1_Canonical) /\ [][C1_Unchanged]_vars

\* C1: the ISBN of 012345672X, still canonical after hyphen() has run.
C1_Witness ==
    /\ isbn.live
    /\ op = "hyphen"
    /\ ret.tag = "Ok"
    /\ isbn.id = Str(<<9, 7, 8, 0, 1, 2, 3, 4, 5, 6, 7, 2, 4>>)

\* C2: round trip.  For every constructed ISBN x starting with 978,
\* x.isbn10() succeeds, ISBN::new of the result succeeds, and the ISBN it
\* gives has the isbn13() of x.
C2_RoundTrip ==
    (op = "isbn10" /\ SubSeq(isbn.id, 1, 3) = B978) =>
        /\ ret.tag = "Ok"
        /\ ISBN_new(ret.val).tag = "Ok"
        /\ isbn13(ISBNValue(ISBN_new(ret.val).val)) = isbn13(isbn)

\* C2: a round trip through a 10-character form ending in X.
C2_Witness ==
    /\ op = "isbn10"
    /\ SubSeq(isbn.id, 1, 3) = B978
    /\ ret.tag = "Ok"
    /\ Len(ret.val) = 10
    /\ ret.val[10] = "X"
    /\ ISBN_new(ret.val).tag = "Ok"
    /\ ISBN_new(ret.val).val = isbn.id

\* C3, as written: digit10 of nine digits is the sum of (10 - i) * d_i mod
\* 11, with i counted from the left, and lies in 0..10.
C3_LeftDescending ==
    op = "digit10" =>
        /\ ret.val = Check10LeftDescending(arg)
        /\ ret.val \in 0..10

\* C3, amended: digit10 of nine digits is the sum of i * d_i mod 11, with i
\* counted from the left (the weight 10 - i belongs to the i-th digit from
\* the right), and lies in 0..10.
C3_LeftAscending ==
    op = "digit10" =>
        /\ ret.val = Check10LeftAscending(arg)
        /\ ret.val \in 0..10

\* C3: digit10 of 012345672 is 10.
C3_Witness ==
    /\ op = "digit10"
    /\ arg = Str(<<0, 1, 2, 3, 4, 5, 6, 7, 2>>)
    /\ ret.val = 10

\* C4, as written: for every raw string that passes construction, 10-unit
\* or 13-unit, isbn13() is the raw string without separators, in upper case.
C4_StrippedInput ==
    (op = "new" /\ ret.tag = "Ok") => isbn13(isbn) = Stripped(arg)

\* C4, amended: for every raw string that passes construction, isbn13() is
\* the stripped raw string when that has 13 characters, and 978, the first 9
\* characters of the stripped raw string and the ISBN13 check value of these
\* 12 when it has 10.
C4_StrippedOrConverted ==
    (op = "new" /\ ret.tag = "Ok") =>
        LET s == Stripped(arg)
            body == B978 \o SubSeq(s, 1, 9)
        IN  /\ Len(s) \in {10, 13}
            /\ Len(s) = 13 => isbn13(isbn) = s
            /\ Len(s) = 10 => isbn13(isbn) = body \o <<AsciiDigits[Check13(body) + 1]>>

\* C4: a 13-unit raw string with separators, constructed.
C4_Witness ==
    /\ op = "new"
    /\ ret.tag = "Ok"
    /\ HasSeparator(arg)
    /\ Len(Stripped(arg)) = 13
    /\ isbn13(isbn) = Stripped(arg)

\* C5: for a raw string that passes the format check with 10 units:
\* construction succeeds iff the 10th character is X and digit10 of the
\* first 9 is 10, or is a digit equal to digit10 of the first 9; it fails
\* with CheckDigit otherwise; on success the id is 978, the first 9, and
\* digit13 of these 12.
C5_TenUnits ==
    (op = "new" /\ ret.tag # "Format" /\ Len(Stripped(arg)) = 10) =>
        LET s == Stripped(arg)
            first9 == SubSeq(s, 1, 9)
            valid == IF s[10] = "X" THEN digit10(first9) = 10
                     ELSE s[10] \in DigitChars /\ DigitVal(s[10]) = digit10(first9)
        IN  /\ ret.tag = (IF valid THEN "Ok" ELSE "CheckDigit")
            /\ valid => /\ ret.val = B978 \o first9 \o FormatU64(digit13(B978 \o first9))
                        /\ isbn = ISBNValue(ret.val)
            /\ ~valid => ~isbn.live

\* C5: a 10-unit raw string ending in x whose ISBN13 check digit is not 0.
C5_Witness ==
    /\ op = "new"
    /\ ret.tag = "Ok"
    /\ Len(Stripped(arg)) = 10
    /\ arg[Len(arg)] = "x"
    /\ ret.val[13] # "0"

\* C6: for a raw string that passes the format check with 13 units:
\* Bookland when the first 3 characters are neither 978 nor 979, whatever
\* the check digit; else CheckDigit when the 13th character is not digit13
\* of the first 12; else success, also for 979.
C6_ThirteenUnits ==
    (op = "new" /\ ret.tag # "Format" /\ Len(Stripped(arg)) = 13) =>
        LET s == Stripped(arg)
        IN  ret.tag = (IF SubSeq(s, 1, 3) \notin {B978, B979} THEN "Bookland"
                       ELSE IF <<s[13]>> # FormatU64(digit13(SubSeq(s, 1, 12)))
                       THEN "CheckDigit"
                       ELSE "Ok")

\* C6: a 979 raw string with the right check digit is accepted.
C6_Witness ==
    /\ op = "new"
    /\ Len(Stripped(arg)) = 13
    /\ SubSeq(Stripped(arg), 1, 3) = B979
    /\ ret.tag = "Ok"
    /\ isbn.live

\* C7: isbn10() fails with Bookland on a 979 ISBN; on a 978 ISBN it returns
\* 10 characters: characters 4-12 of the id, then the digit digit10 of
\* these, or the one letter X when that is 10.
C7_Isbn10 ==
    op = "isbn10" =>
        LET body == SubSeq(isbn.id, 4, 12)
        IN  /\ SubSeq(isbn.id, 1, 3) = B979 => ret.tag = "Bookland"
            /\ SubSeq(isbn.id, 1, 3) = B978 =>
                  /\ ret.tag = "Ok"
                  /\ Len(ret.val) = 10
                  /\ SubSeq(ret.val, 1, 9) = body
                  /\ ret.val[10] = (IF digit10(body) = 10 THEN "X"
                                    ELSE AsciiDigits[digit10(body) + 1])

\* C7: isbn10() of 9780123456724 is 012345672X.
C7_Witness ==
    /\ op = "isbn10"
    /\ isbn.id = Str(<<9, 7, 8, 0, 1, 2, 3, 4, 5, 6, 7, 2, 4>>)
    /\ ret = Ok(Str(<<0, 1, 2, 3, 4, 5, 6, 7, 2>>) \o <<"X">>)

\* C8: ISBN::new ends, for every raw string, in an ISBN or in one of
\* Format, CheckDigit, Bookland (never Range, never a panic), the stripped
\* string of a raw string that passes the format check having 10 or 13
\* characters; is_valid returns true iff ISBN::new succeeds, false otherwise.
C8_Total ==
    /\ op = "new" =>
          /\ ret.tag \in {"Ok", "Format", "CheckDigit", "Bookland"}
          /\ isbn.live <=> ret.tag = "Ok"
          /\ ret.tag # "Format" => Len(nid_of(arg)) \in {10, 13}
    /\ op = "is_valid" =>
          /\ ret.tag \in {"True", "False"}
          /\ ret.tag = "True" <=> ISBN_new(arg).tag = "Ok"

\* C8: is_valid is true of a raw string with separators ending in x.
C8_Witness ==
    /\ op = "is_valid"
    /\ ret.tag = "True"
    /\ HasSeparator(arg)
    /\ arg[Len(arg)] = "x"

\* The id without its prefix and check digit.
Body(id) == SubSeq(id, 4, 12)

\* C9: for every answer (grp, reg, pbl) of sum 9, or (0, 0, 0), hyphen() and
\* doi() fail with Range exactly when grp is 0; otherwise hyphen() is the
\* prefix, the first grp digits of the body, the next reg, the next pbl and
\* the check digit joined by hyphens (the id, once the hyphens are removed),
\* and doi() is 10.prefix.group+registrant/publisher+check.
C9_Segments ==
    op \in {"hyphen", "doi"} =>
        LET grp == arg[1]
            reg == arg[2]
            pbl == arg[3]
            prefix == SubSeq(isbn.id, 1, 3)
            group == SubSeq(Body(isbn.id), 1, grp)
            registrant == SubSeq(Body(isbn.id), grp + 1, grp + reg)
            publisher == SubSeq(Body(isbn.id), grp + reg + 1, grp + reg + pbl)
            check == <<isbn.id[13]>>
        IN  /\ ret.tag = "Range" <=> grp = 0
            /\ grp # 0 => ret.tag = "Ok"
            /\ (grp # 0 /\ op = "hyphen") =>
                  /\ ret.val = prefix \o <<"-">> \o group \o <<"-">> \o registrant
                                 \o <<"-">> \o publisher \o <<"-">> \o check
                  /\ SelectSeq(ret.val, LAMBDA c : c # "-") = isbn.id
            /\ (grp # 0 /\ op = "doi") =>
                  ret.val = <<"1", "0", ".">> \o prefix \o <<".">> \o group \o registrant
                              \o <<"/">> \o publisher \o check

\* C9: hyphen() of 9781593273880 with the answer (1, 5, 3).
C9_Witness ==
    /\ op = "hyphen"
    /\ arg = <<1, 5, 3>>
    /\ isbn.id = Str(<<9, 7, 8, 1, 5, 9, 3, 2, 7, 3, 8, 8, 0>>)
    /\ ret = Ok(<<"9", "7", "8", "-", "1", "-", "5", "9", "3", "2", "7", "-",
                  "3", "8", "8", "-", "0">>)

\* C10: ISBN::new fails with Format exactly when the raw string has neither
\* of the two shapes, whatever its prefix and check digit.
C10_Format ==
    op = "new" => (ret.tag = "Format" <=> ~WellShaped(arg))

\* C10: a valid identifier followed by a separator fails with Format.
C10_Witness ==
    /\ op = "new"
    /\ ret.tag = "Format"
    /\ arg[Len(arg)] \in Separators
    /\ ISBN_new(SubSeq(arg, 1, Len(arg) - 1)).tag = "Ok"

====
